---- MODULE Spec2Model ----
(***************************************************************************)
(* Model of the BrainDrive OpenAI plugin lifecycle manager                 *)
(* (lifecycle_manager.py) and of the HTTP endpoints that call it           *)
(* (api_endpoints.py).                                                     *)
(*                                                                         *)
(* Every user runs at most one request at a time; requests of different    *)
(* users interleave at the granularity of the helper calls of              *)
(* install_plugin / uninstall_plugin.  The database is a set of rows keyed *)
(* by primary key; each request owns a session whose pending inserts and   *)
(* deletes reach the database only at commit.  The filesystem is the       *)
(* shared template directory plus one directory per user.  Every query,    *)
(* every commit and every filesystem call may raise; db.rollback() is      *)
(* taken to succeed.                                                       *)
(*                                                                         *)
(* SpecArchive is the run of build_archive.py, which shares nothing with   *)
(* the lifecycle manager: one run of main() over the content of the        *)
(* current directory and a command line.                                   *)
(***************************************************************************)
EXTENDS Integers, FiniteSets, Sequences, TLC

\* ------------------------------------------------------------------ bounds
Users == {"u1", "u2"}

\* ------------------------------------------------------------------ identities
plugin_slug == "BrainDriveOpenAI"

PluginId(u) == <<u, plugin_slug>>

ModuleId(u) == <<u, "componentOpenAIKeys">>

InstanceId(u) == <<"openai_settings", u>>

DefinitionId == <<"openai_api_keys_settings", "">>

NoId == <<"", "">>

\* ------------------------------------------------------------------ rows
PluginRow(u) ==
    [kind |-> "Plugin", id |-> PluginId(u), plugin_id |-> NoId, user_id |-> u]

ModuleRow(u) ==
    [kind |-> "Module", id |-> ModuleId(u), plugin_id |-> PluginId(u), user_id |-> u]

DefinitionRow ==
    [kind |-> "SettingsDefinition", id |-> DefinitionId, plugin_id |-> NoId, user_id |-> ""]

InstanceRow(u) ==
    [kind |-> "SettingsInstance", id |-> InstanceId(u), plugin_id |-> DefinitionId, user_id |-> u]

\* ------------------------------------------------------------------ filesystem
\* The entries a plugin tree can hold: the dist directory, the entry point
\* inside it, and the manifest beside it.
Entries == {"dist", "dist/remoteEntry.js", "package.json"}

DistEntries == {"dist", "dist/remoteEntry.js"}

\* A file lives in a directory that exists.
WellFormed(es) == ("dist/remoteEntry.js" \in es) => ("dist" \in es)

Trees == {es \in SUBSET Entries : WellFormed(es)}

NoDir == [exists |-> FALSE, entries |-> {}]

Dir(es) == [exists |-> TRUE, entries |-> es]

VARIABLES
    template,   \* plugins/{slug}: the shared template directory
    dirs,       \* dirs[u]: plugins/{u}/{slug}
    db,         \* committed rows
    session,    \* session[u]: pending inserts and deletes of u's request
    pc,         \* pc[u]: position of u's request
    loc,        \* loc[u]: local variables of u's request
    result,     \* result[u]: what u's last operation returned
    fresh,      \* fresh[u]: u's artefacts after u's first successful install
    leftover,   \* leftover[u]: the last removal of u's directory raised
    cli         \* the run of build_archive.py (CliOff: none)

vars == <<template, dirs, db, session, pc, loc, result, fresh, leftover, cli>>

\* ------------------------------------------------------------------ results
\* What an operation gave its endpoint (raised: it let an exception through
\* instead of returning), and the status code the endpoint answered with.
NoResult ==
    [op |-> "none", success |-> FALSE, error |-> "none", plugin_id |-> NoId,
     modules_created |-> {}, settings_created |-> {}, plugin_directory |-> "",
     modules_removed |-> 0, settings_removed |-> 0,
     installed |-> FALSE, raised |-> FALSE, http |-> 0]

Failure(op, err) == [NoResult EXCEPT !.op = op, !.error = err]

\* The call let an exception through.
Raised(op) == [NoResult EXCEPT !.op = op, !.error = "exception", !.raised = TRUE]

\* The status code of the endpoints: 500 for an exception, and for install
\* and uninstall 400 for a failure result.
HttpStatus(r) ==
    IF r.raised THEN 500
    ELSE IF r.op = "status" \/ r.success THEN 200
    ELSE 400

EmptySession == [ins |-> {}, del |-> {}]

\* Local variables of a request: user_plugin_dir ("" while unset), db_result
\* and settings_result of install_plugin, modules and settings_instance of
\* uninstall_plugin, and what became of the compensating cleanup ("none"
\* while it was not called).
NoLoc ==
    [user_plugin_dir |-> "", modules_created |-> {}, settings_created |-> {},
     modules |-> {}, settings_instance |-> {}, cleanup |-> "none"]

\* ------------------------------------------------------------------ session
\* What a query of u's session sees: the committed rows and its own pending
\* changes.
Visible(u) == (db \cup session[u].ins) \ session[u].del

\* db.add(row)
Add(s, row) == [s EXCEPT !.ins = @ \cup {row}]

\* db.delete(row)
Delete(s, row) ==
    IF row \in s.ins THEN [s EXCEPT !.ins = @ \ {row}]
    ELSE [s EXCEPT !.del = @ \cup {row}]

\* A rollback that leaves the pending changes in the session.
RollbackKeepsPending(s) == s

\* db.rollback()
Rollback(s) == EmptySession

\* A commit raises when it inserts a primary key that is already there.
CommitConflict(s) == \E r \in s.ins : \E c \in db : c.id = r.id

Committed(s) == (db \ s.del) \cup s.ins

\* ------------------------------------------------------------------ filesystem calls
\* What a raising shutil.rmtree can leave behind: the directory with any part
\* of its content.
RmtreeFailures(d) == {Dir(es) : es \in {t \in Trees : t \subseteq d.entries}}

\* shutil.rmtree(user_plugin_dir) that returns
RmtreeOk(d) == NoDir

\* user_plugin_dir.mkdir(parents=True, exist_ok=True)
Mkdir(d) == IF d.exists THEN d ELSE Dir({})

\* The copy of the template that _copy_plugin_files leaves when nothing raises.
CopyOk(d, t) ==
    LET dist == IF "dist" \in t.entries
                THEN (d.entries \ DistEntries) \cup (t.entries \cap DistEntries)
                ELSE d.entries
        pkg  == IF "package.json" \in t.entries THEN {"package.json"} ELSE {}
    IN  Dir(dist \cup pkg)

\* What _copy_plugin_files leaves when one of its calls raises: rmtree of the
\* old dist, copytree of the new one, or copy2 of the manifest.
CopyFailures(d, t) ==
    LET cleared == d.entries \ DistEntries
        copied  == cleared \cup (t.entries \cap DistEntries)
    IN  IF "dist" \in t.entries
        THEN {Dir(es) : es \in
                 {x \in Trees : cleared \subseteq x /\ x \subseteq d.entries}
                 \cup {x \in Trees : cleared \subseteq x /\ x \subseteq copied}}
        ELSE {d}

\* A cleanup that never removes anything.
CleanupNothing(d) == {[dir |-> d, status |-> "ok"]}

\* _cleanup_user_directory: the outcomes, each with whether rmtree raised.
Cleanup(d) ==
    IF d.exists
    THEN {[dir |-> RmtreeOk(d), status |-> "ok"]}
         \cup {[dir |-> f, status |-> "failed"] : f \in RmtreeFailures(d)}
    ELSE {[dir |-> d, status |-> "ok"]}

\* A validation that looks for the dist directory only.
ValidateDistOnly(d) ==
    IF "dist" \notin d.entries THEN [valid |-> FALSE, error |-> "dist_not_found"]
    ELSE [valid |-> TRUE, error |-> "none"]

\* _validate_installation
Validate(d) ==
    IF "dist" \notin d.entries THEN [valid |-> FALSE, error |-> "dist_not_found"]
    ELSE IF "dist/remoteEntry.js" \notin d.entries
         THEN [valid |-> FALSE, error |-> "remote_entry_not_found"]
         ELSE [valid |-> TRUE, error |-> "none"]

\* ------------------------------------------------------------------ archive builder
\* A file name is a sequence of pieces of text, a path a sequence of names,
\* and the name of an archive member the pieces of its path joined by "/".
NodeModules == <<"node_modules">>

Git == <<".git">>

Lock == <<"package-lock.json">>

Src == <<"src">>

Index == <<"index.js">>

MyLock == <<"my-", "package-lock.json">>

OldLock == <<"old-", "package-lock.json">>

RECURSIVE Join(_)
Join(path) ==
    IF Len(path) = 0 THEN <<>>
    ELSE IF Len(path) = 1 THEN path[1]
    ELSE path[1] \o <<"/">> \o Join(Tail(path))

\* Path(name).parts
RECURSIVE Parts(_)
Parts(name) ==
    IF Len(name) = 0 THEN <<>>
    ELSE LET slashes == {i \in 1..Len(name) : name[i] = "/"}
         IN  IF slashes = {} THEN <<name>>
             ELSE LET i == CHOOSE k \in slashes : \A j \in slashes : k <= j
                  IN  <<SubSeq(name, 1, i - 1)>> \o Parts(SubSeq(name, i + 1, Len(name)))

\* name.endswith(suffix)
EndsWith(name, suffix) ==
    /\ Len(name) >= Len(suffix)
    /\ SubSeq(name, Len(name) - Len(suffix) + 1, Len(name)) = suffix

\* should_exclude_file: TRUE when it returns None
Excluded(name) ==
    LET parts == Parts(name)
    IN  \/ \E i \in 1..Len(parts) : parts[i] = NodeModules
        \/ \E i \in 1..Len(parts) : parts[i] = Git
        \/ EndsWith(name, Lock)

File(path) == [path |-> path, dir |-> FALSE]

Folder(path) == [path |-> path, dir |-> TRUE]

\* What the current directory can hold.
Universe ==
    {Folder(<<Src>>), File(<<Src, Index>>), File(<<Src, Lock>>),
     Folder(<<Src, NodeModules>>), File(<<Src, NodeModules, Index>>),
     Folder(<<Git>>), File(<<Git, Index>>),
     Folder(<<OldLock>>), File(<<OldLock, Index>>),
     File(<<Index>>), File(<<Lock>>), File(<<MyLock>>)}

Parent(path) == SubSeq(path, 1, Len(path) - 1)

CurrentDirs ==
    {t \in SUBSET Universe :
        \A e \in t : Len(e.path) > 1 => Folder(Parent(e.path)) \in t}

NoArg == <<>>

\* if not version.startswith('v'): version = f'v{version}'
NormalVersion(version) ==
    IF Len(version) > 0 /\ version[1] = "v" THEN version ELSE <<"v">> \o version

\* f"{plugin_name}-{version}.tar.gz"
ArchiveName(plugin_name, version) ==
    plugin_name \o <<"-">> \o NormalVersion(version) \o <<".tar.gz">>

\* The name tar.add gives the entry at a path below the source directory.
MemberName(plugin_name, path) == Join(<<plugin_name>> \o path)

\* tar.add(plugin_path, arcname=plugin_name, filter=should_exclude_file): the
\* source directory and what is below it, without the entries the filter
\* rejects and without what is below a rejected directory.
Added(plugin_name, tree) ==
    {MemberName(plugin_name, e.path) :
        e \in {x \in tree \cup {Folder(<<>>)} :
                 \A k \in 0..Len(x.path) :
                    ~Excluded(MemberName(plugin_name, SubSeq(x.path, 1, k)))}}

CliOff ==
    [pc |-> "off", plugin_name |-> NoArg, version |-> NoArg, list |-> FALSE,
     tree |-> {}, archive |-> NoArg, members |-> {}, io_error |-> FALSE,
     reported |-> FALSE, exit |-> -1]

\* The command lines and current directories of a run.
CliInputs ==
    {[CliOff EXCEPT !.pc = "main", !.plugin_name = n, !.version = v,
                    !.list = l, !.tree = t] :
        n \in {NoArg, Src, Index, NodeModules},
        v \in {NoArg, <<"1.0.3">>, <<"v", "2.1.0">>},
        l \in BOOLEAN,
        t \in CurrentDirs}

Exit(c, code) == [c EXCEPT !.pc = "exit", !.exit = code]

\* main(): --list, the test of the required arguments, or on to
\* create_plugin_archive; a return from main ends the process with code 0.
CliMain ==
    /\ cli.pc = "main"
    /\ cli' = IF cli.list THEN Exit(cli, 0)
              ELSE IF cli.plugin_name = NoArg \/ cli.version = NoArg
                   THEN Exit([cli EXCEPT !.reported = TRUE], 0)
                   ELSE [cli EXCEPT !.pc = "create"]
    /\ UNCHANGED <<template, dirs, db, session, pc, loc, result, fresh, leftover>>

\* plugin_path = current_dir: the source is the current directory, whatever
\* the plugin name.
SourceExists(c) == TRUE

SourceIsDir(c) == TRUE

\* create_plugin_archive and the exit of main() that follows it.
CliCreate ==
    /\ cli.pc = "create"
    /\ \/ \* tarfile raises while the archive is written
          cli' = Exit([cli EXCEPT !.io_error = TRUE, !.reported = TRUE], 1)
       \/ cli' = IF ~SourceExists(cli) \/ ~SourceIsDir(cli)
                 THEN Exit([cli EXCEPT !.reported = TRUE], 1)
                 ELSE Exit([cli EXCEPT
                              !.archive = ArchiveName(cli.plugin_name, cli.version),
                              !.members = Added(cli.plugin_name, cli.tree)], 0)
    /\ UNCHANGED <<template, dirs, db, session, pc, loc, result, fresh, leftover>>

\* ------------------------------------------------------------------ history
\* The artefacts a user can tell apart: the rows of the user, the shared
\* definition, and the user's directory.
View(u, rows, d) ==
    [rows |-> {r \in rows : r.user_id = u \/ r.id = DefinitionId}, dir |-> d]

UserView(u) == View(u, db, dirs[u])

NoFresh == [stage |-> "none", rows |-> {}, dir |-> NoDir]

Init ==
    /\ template \in {NoDir} \cup {Dir(es) : es \in Trees}
    /\ dirs = [u \in Users |-> NoDir]
    /\ db = {}
    /\ session = [u \in Users |-> EmptySession]
    /\ pc = [u \in Users |-> "idle"]
    /\ loc = [u \in Users |-> NoLoc]
    /\ result = [u \in Users |-> NoResult]
    /\ fresh = [u \in Users |-> NoFresh]
    /\ leftover = [u \in Users |-> FALSE]
    /\ cli = CliOff

\* The operation of u returns r.
Return(u, r) ==
    /\ pc' = [pc EXCEPT ![u] = "idle"]
    /\ result' = [result EXCEPT ![u] = [r EXCEPT !.http = HttpStatus(r)]]

Goto(u, label) ==
    /\ pc' = [pc EXCEPT ![u] = label]
    /\ UNCHANGED result

\* ------------------------------------------------------------------ install
\* POST /install: the endpoint calls install_plugin with a session of its own.
InstallBegin(u) ==
    /\ pc[u] = "idle"
    /\ pc' = [pc EXCEPT ![u] = "i_check"]
    /\ session' = [session EXCEPT ![u] = EmptySession]
    /\ loc' = [loc EXCEPT ![u] = NoLoc]
    /\ result' = [result EXCEPT ![u] = NoResult]
    /\ UNCHANGED <<cli, template, dirs, db, fresh, leftover>>

\* An existence check that never finds the plugin.
CheckExistingNever(u) == [exists |-> FALSE, plugin_id |-> NoId]

\* An existence check that finds the plugin of any user.
CheckExistingAnyOwner(u) ==
    LET found == {r \in Visible(u) : r.kind = "Plugin"}
    IN  [exists |-> found # {},
         plugin_id |-> IF found # {} THEN PluginId(u) ELSE NoId]

\* _check_existing_plugin
CheckExisting(u) ==
    LET found == {r \in Visible(u) : r.kind = "Plugin" /\ r.id = PluginId(u)}
    IN  [exists |-> found # {},
         plugin_id |-> IF found # {} THEN PluginId(u) ELSE NoId]

\* An install without its except clause: the exception goes through.
InstallExceptMissing(u, e) ==
    /\ UNCHANGED session
    /\ Return(u, Raised("install"))

\* The except clause of install_plugin: roll back and report the exception.
InstallExcept(u, e) ==
    /\ session' = [session EXCEPT ![u] = Rollback(@)]
    /\ Return(u, Failure("install", e))

InstallCheck(u) ==
    /\ pc[u] = "i_check"
    /\ \E raised \in BOOLEAN :
         IF raised
         THEN InstallExcept(u, "exception")
         ELSE /\ IF CheckExisting(u).exists
                 THEN Return(u, [Failure("install", "already_installed")
                                   EXCEPT !.plugin_id = CheckExisting(u).plugin_id])
                 ELSE Goto(u, "i_mkdir")
              /\ UNCHANGED session
    /\ UNCHANGED <<cli, template, dirs, db, loc, fresh, leftover>>

\* _create_user_plugin_directory
InstallMkdir(u) ==
    /\ pc[u] = "i_mkdir"
    /\ \E raised \in BOOLEAN :
         IF raised
         THEN /\ Return(u, Failure("install", "mkdir_failed"))
              /\ UNCHANGED dirs
              /\ UNCHANGED loc
         ELSE /\ dirs' = [dirs EXCEPT ![u] = Mkdir(@)]
              /\ loc' = [loc EXCEPT ![u].user_plugin_dir = u]
              /\ Goto(u, "i_copy")
    /\ UNCHANGED <<cli, template, db, session, fresh, leftover>>

\* A helper reported failure: clean the directory up and return its result.
CleanupAndReturn(u, d, err) ==
    \E c \in Cleanup(d) :
        /\ dirs' = [dirs EXCEPT ![u] = c.dir]
        /\ loc' = [loc EXCEPT ![u].cleanup = c.status]
        /\ leftover' = [leftover EXCEPT ![u] = (c.status = "failed")]
        /\ Return(u, Failure("install", err))

\* _copy_plugin_files
InstallCopy(u) ==
    /\ pc[u] = "i_copy"
    /\ \/ /\ ~template.exists
          /\ CleanupAndReturn(u, dirs[u], "source_not_found")
       \/ /\ template.exists
          /\ \E f \in CopyFailures(dirs[u], template) :
                CleanupAndReturn(u, f, "copy_failed")
       \/ /\ template.exists
          /\ dirs' = [dirs EXCEPT ![u] = CopyOk(@, template)]
          /\ Goto(u, "i_records")
          /\ UNCHANGED <<loc, leftover>>
    /\ UNCHANGED <<cli, template, db, session, fresh>>

\* _create_database_records: the Plugin row and its Module row
RecordsToStage(u) == {PluginRow(u), ModuleRow(u)}

InstallRecords(u) ==
    /\ pc[u] = "i_records"
    /\ \/ \* an exception before the first add, or between the two
          /\ \E staged \in {{}, {PluginRow(u)}} :
                session' = [session EXCEPT ![u].ins = @ \cup staged]
          /\ CleanupAndReturn(u, dirs[u], "records_failed")
       \/ /\ session' = [session EXCEPT ![u].ins = @ \cup RecordsToStage(u)]
          /\ loc' = [loc EXCEPT ![u].modules_created = {ModuleId(u)}]
          /\ Goto(u, "i_settings")
          /\ UNCHANGED <<dirs, leftover>>
    /\ UNCHANGED <<cli, template, db, fresh>>

\* Settings provisioning that creates the instance only together with the
\* definition.
SettingsToStageNested(u, definition_found) ==
    IF definition_found THEN {} ELSE {DefinitionRow, InstanceRow(u)}

\* _create_settings: the definition when the query did not find it, and the
\* user's instance always.
SettingsToStage(u, definition_found) ==
    (IF definition_found THEN {} ELSE {DefinitionRow}) \cup {InstanceRow(u)}

DefinitionFound(u) ==
    \E r \in Visible(u) : r.kind = "SettingsDefinition" /\ r.id = DefinitionId

InstallSettings(u) ==
    /\ pc[u] = "i_settings"
    /\ \/ \* the query raises, or an exception follows the add of the definition
          /\ \E staged \in {{}, SettingsToStage(u, DefinitionFound(u)) \ {InstanceRow(u)}} :
                session' = [session EXCEPT ![u].ins = @ \cup staged]
          /\ CleanupAndReturn(u, dirs[u], "settings_failed")
       \/ /\ session' = [session EXCEPT
                           ![u].ins = @ \cup SettingsToStage(u, DefinitionFound(u))]
          /\ loc' = [loc EXCEPT ![u].settings_created = {DefinitionId, InstanceId(u)}]
          /\ Goto(u, "i_validate")
          /\ UNCHANGED <<dirs, leftover>>
    /\ UNCHANGED <<cli, template, db, fresh>>

InstallValidate(u) ==
    /\ pc[u] = "i_validate"
    /\ \/ /\ \/ ~Validate(dirs[u]).valid
             \/ TRUE    \* an exception inside _validate_installation
          /\ session' = [session EXCEPT ![u] = Rollback(@)]
          /\ CleanupAndReturn(u, dirs[u],
                 IF Validate(dirs[u]).valid THEN "validation_exception"
                 ELSE Validate(dirs[u]).error)
       \/ /\ Validate(dirs[u]).valid
          /\ Goto(u, "i_commit")
          /\ UNCHANGED <<dirs, session, loc, leftover>>
    /\ UNCHANGED <<cli, template, db, fresh>>

\* What install_plugin returns after its commit.
InstallSuccess(u) ==
    [NoResult EXCEPT !.op = "install", !.success = TRUE,
                     !.plugin_id = PluginId(u),
                     !.modules_created = loc[u].modules_created,
                     !.plugin_directory = u,
                     !.settings_created = loc[u].settings_created]

FreshAfterInstall(u, f, rows, d) ==
    IF f.stage = "none"
    THEN [stage |-> "installed", rows |-> View(u, rows, d).rows, dir |-> d]
    ELSE IF f.stage = "uninstalled" THEN [f EXCEPT !.stage = "reinstalled"]
    ELSE f

InstallCommit(u) ==
    /\ pc[u] = "i_commit"
    /\ \/ \* db.commit() raises
          /\ InstallExcept(u, "exception")
          /\ UNCHANGED <<db, fresh>>
       \/ \* db.commit() raises because a row of that key was committed meanwhile
          /\ CommitConflict(session[u])
          /\ InstallExcept(u, "integrity_error")
          /\ UNCHANGED <<db, fresh>>
       \/ /\ ~CommitConflict(session[u])
          /\ db' = Committed(session[u])
          /\ session' = [session EXCEPT ![u] = EmptySession]
          /\ fresh' = [fresh EXCEPT ![u] = FreshAfterInstall(u, @, db', dirs[u])]
          /\ Return(u, InstallSuccess(u))
    /\ UNCHANGED <<cli, template, dirs, loc, leftover>>

\* ------------------------------------------------------------------ uninstall
\* DELETE /uninstall: the endpoint calls uninstall_plugin with a session of
\* its own.
UninstallBegin(u) ==
    /\ pc[u] = "idle"
    /\ pc' = [pc EXCEPT ![u] = "u_modules"]
    /\ session' = [session EXCEPT ![u] = EmptySession]
    /\ loc' = [loc EXCEPT ![u] = NoLoc]
    /\ result' = [result EXCEPT ![u] = NoResult]
    /\ UNCHANGED <<cli, template, dirs, db, fresh, leftover>>

\* The except clause of uninstall_plugin.
UninstallExcept(u) ==
    /\ session' = [session EXCEPT ![u] = Rollback(@)]
    /\ Return(u, Failure("uninstall", "exception"))

\* Mark every row of a set deleted.
DeleteAll(s, rows) ==
    [ins |-> s.ins \ rows, del |-> s.del \cup (rows \ s.ins)]

\* A query for the modules that forgets its where clause.
SelectModulesOfAnyPlugin(u) == {r \in Visible(u) : r.kind = "Module"}

SelectModules(u) ==
    {r \in Visible(u) : r.kind = "Module" /\ r.plugin_id = PluginId(u)}

\* A query for the plugin that finds nothing.
SelectPluginNone(u) == {}

SelectPlugin(u) ==
    {r \in Visible(u) : r.kind = "Plugin" /\ r.id = PluginId(u)}

\* A query that also returns the shared definition.
SelectSettingsWithDefinition(u) ==
    {r \in Visible(u) : \/ r.kind = "SettingsInstance" /\ r.user_id = u
                        \/ r.kind = "SettingsDefinition"}

SelectSettingsInstance(u) ==
    {r \in Visible(u) : r.kind = "SettingsInstance"
                        /\ r.plugin_id = DefinitionId /\ r.user_id = u}

UninstallModules(u) ==
    /\ pc[u] = "u_modules"
    /\ \/ /\ UninstallExcept(u)
          /\ UNCHANGED loc
       \/ /\ loc' = [loc EXCEPT ![u].modules = SelectModules(u)]
          /\ session' = [session EXCEPT ![u] = DeleteAll(@, SelectModules(u))]
          /\ Goto(u, "u_plugin")
    /\ UNCHANGED <<cli, template, dirs, db, fresh, leftover>>

UninstallPlugin(u) ==
    /\ pc[u] = "u_plugin"
    /\ \/ UninstallExcept(u)
       \/ /\ session' = [session EXCEPT ![u] = DeleteAll(@, SelectPlugin(u))]
          /\ Goto(u, "u_settings")
    /\ UNCHANGED <<cli, template, dirs, db, loc, fresh, leftover>>

UninstallSettings(u) ==
    /\ pc[u] = "u_settings"
    /\ \/ /\ UninstallExcept(u)
          /\ UNCHANGED loc
       \/ /\ loc' = [loc EXCEPT ![u].settings_instance = SelectSettingsInstance(u)]
          /\ session' = [session EXCEPT ![u] = DeleteAll(@, SelectSettingsInstance(u))]
          /\ Goto(u, "u_rmtree")
    /\ UNCHANGED <<cli, template, dirs, db, fresh, leftover>>

UninstallRmtree(u) ==
    /\ pc[u] = "u_rmtree"
    /\ \/ /\ dirs[u].exists
          /\ \E f \in RmtreeFailures(dirs[u]) : dirs' = [dirs EXCEPT ![u] = f]
          /\ leftover' = [leftover EXCEPT ![u] = TRUE]
          /\ UninstallExcept(u)
       \/ /\ dirs' = [dirs EXCEPT ![u] = IF @.exists THEN RmtreeOk(@) ELSE @]
          /\ leftover' = [leftover EXCEPT ![u] = FALSE]
          /\ Goto(u, "u_commit")
          /\ UNCHANGED session
    /\ UNCHANGED <<cli, template, db, loc, fresh>>

\* A result that reports one settings instance removed whatever was found.
UninstallSuccessAlwaysOne(u) ==
    [NoResult EXCEPT !.op = "uninstall", !.success = TRUE,
                     !.modules_removed = Cardinality(loc[u].modules),
                     !.settings_removed = 1]

\* What uninstall_plugin returns after its commit.
UninstallSuccess(u) ==
    [NoResult EXCEPT !.op = "uninstall", !.success = TRUE,
                     !.modules_removed = Cardinality(loc[u].modules),
                     !.settings_removed =
                         IF loc[u].settings_instance # {} THEN 1 ELSE 0]

FreshAfterUninstall(f) ==
    IF f.stage = "installed" THEN [f EXCEPT !.stage = "uninstalled"] ELSE f

UninstallCommit(u) ==
    /\ pc[u] = "u_commit"
    /\ \/ /\ UninstallExcept(u)
          /\ UNCHANGED <<db, fresh>>
       \/ /\ ~CommitConflict(session[u])
          /\ db' = Committed(session[u])
          /\ session' = [session EXCEPT ![u] = EmptySession]
          /\ fresh' = [fresh EXCEPT ![u] = FreshAfterUninstall(@)]
          /\ Return(u, UninstallSuccess(u))
    /\ UNCHANGED <<cli, template, dirs, loc, leftover>>

\* ------------------------------------------------------------------ status
\* GET /status: the endpoint calls _check_existing_plugin with a session of
\* its own.
StatusBegin(u) ==
    /\ pc[u] = "idle"
    /\ pc' = [pc EXCEPT ![u] = "s_check"]
    /\ session' = [session EXCEPT ![u] = EmptySession]
    /\ loc' = [loc EXCEPT ![u] = NoLoc]
    /\ result' = [result EXCEPT ![u] = NoResult]
    /\ UNCHANGED <<cli, template, dirs, db, fresh, leftover>>

\* What get_plugin_status answers from the existence check.
StatusReport(u) ==
    [NoResult EXCEPT !.op = "status", !.success = TRUE,
                     !.installed = CheckExisting(u).exists,
                     !.plugin_id = CheckExisting(u).plugin_id]

StatusCheck(u) ==
    /\ pc[u] = "s_check"
    /\ \/ \* the query raises: _check_existing_plugin catches nothing
          Return(u, Raised("status"))
       \/ Return(u, StatusReport(u))
    /\ UNCHANGED <<cli, template, dirs, db, session, loc, fresh, leftover>>

\* ------------------------------------------------------------------ specification
Next ==
    \E u \in Users :
        \/ InstallBegin(u)
        \/ InstallCheck(u)
        \/ InstallMkdir(u)
        \/ InstallCopy(u)
        \/ InstallRecords(u)
        \/ InstallSettings(u)
        \/ InstallValidate(u)
        \/ InstallCommit(u)
        \/ UninstallBegin(u)
        \/ UninstallModules(u)
        \/ UninstallPlugin(u)
        \/ UninstallSettings(u)
        \/ UninstallRmtree(u)
        \/ UninstallCommit(u)
        \/ StatusBegin(u)
        \/ StatusCheck(u)

Spec == Init /\ [][Next]_vars

\* One run of build_archive.py; the lifecycle manager stands still.
InitArchive ==
    /\ template = NoDir
    /\ dirs = [u \in Users |-> NoDir]
    /\ db = {}
    /\ session = [u \in Users |-> EmptySession]
    /\ pc = [u \in Users |-> "idle"]
    /\ loc = [u \in Users |-> NoLoc]
    /\ result = [u \in Users |-> NoResult]
    /\ fresh = [u \in Users |-> NoFresh]
    /\ leftover = [u \in Users |-> FALSE]
    /\ cli \in CliInputs

NextArchive == CliMain \/ CliCreate

SpecArchive == InitArchive /\ [][NextArchive]_vars

\* ------------------------------------------------------------------ observations
\* The committed rows of user u (the shared definition is nobody's).
RowsOf(u) == {r \in db : r.user_id = u}

HasPlugin(u) == \E r \in db : r.kind = "Plugin" /\ r.id = PluginId(u)

HasModule(u) == \E r \in db : r.kind = "Module" /\ r.plugin_id = PluginId(u)

HasInstance(u) ==
    \E r \in db : r.kind = "SettingsInstance" /\ r.plugin_id = DefinitionId /\ r.user_id = u

HasDefinition == \E r \in db : r.kind = "SettingsDefinition"

\* u's last operation was op and it has returned.
Returned(u, op) == pc[u] = "idle" /\ result[u].op = op

UninstallPcs == {"u_modules", "u_plugin", "u_settings", "u_rmtree", "u_commit"}

\* ------------------------------------------------------------------ claims
\* C1: whenever no operation of a user is in flight, the user's Plugin record
\* exists if and only if the user's directory exists, and if and only if the
\* user's Settings Instance exists.  The directory that survives a removal
\* that raised is the inconsistency the design accepts; it is left aside here,
\* so that a violation shows the lockstep broken by a failing commit alone.
C1_Lockstep ==
    \A u \in Users :
        (pc[u] = "idle" /\ ~leftover[u]) =>
            /\ HasPlugin(u) <=> dirs[u].exists
            /\ HasPlugin(u) <=> HasInstance(u)

\* C2: an uninstall of a user who has no Plugin record changes neither the
\* committed rows nor any directory at any of its steps, and returns a failure.
C2_UninstallAbsentFails ==
    [][\A u \in Users :
         (pc[u] \in UninstallPcs /\ pc'[u] # pc[u] /\ ~HasPlugin(u)) =>
             /\ db' = db
             /\ dirs' = dirs
             /\ pc'[u] = "idle" => ~result'[u].success]_vars

\* C3: the existence check of an install of a user whose Plugin record exists
\* ends the install with a failure that carries the identity of that record
\* (or reports the exception the lookup raised), and changes no committed row,
\* no pending change and no directory.
C3_InstallTwiceNoMutation ==
    [][\A u \in Users :
         (pc[u] = "i_check" /\ pc'[u] # pc[u] /\ HasPlugin(u)) =>
             /\ pc'[u] = "idle"
             /\ ~result'[u].success
             /\ \/ /\ result'[u].error = "already_installed"
                   /\ result'[u].plugin_id = PluginId(u)
                \/ result'[u].error = "exception"
             /\ db' = db
             /\ session' = session
             /\ dirs' = dirs]_vars

C3_Witness ==
    \E u \in Users :
        /\ Returned(u, "install")
        /\ result[u].error = "already_installed"
        /\ result[u].plugin_id = PluginId(u)
        /\ HasPlugin(u)
        /\ dirs[u].exists

\* C4: when an install has failed after it created the user's directory, the
\* deletion of the directory was attempted, and unless that deletion itself
\* failed the directory is gone.
C4_FailedInstallCleansUp ==
    \A u \in Users :
        (Returned(u, "install") /\ ~result[u].success /\ loc[u].user_plugin_dir # "") =>
            /\ loc[u].cleanup # "none"
            /\ loc[u].cleanup = "ok" => ~dirs[u].exists

\* C5: an uninstall touches the user's directory only when none of its record
\* deletions is still uncommitted.
C5_RmtreeAfterCommit ==
    [][\A u \in Users :
         (pc[u] \in UninstallPcs /\ dirs'[u] # dirs[u]) => session[u].del = {}]_vars

\* C6: an install returns success only from its commit, which persists exactly
\* the staged rows; while the success stands, the user's Plugin, Module and
\* Settings Instance rows are committed and the directory holds
\* dist/remoteEntry.js; an install that leaves its commit with a failure has
\* persisted nothing and keeps nothing staged.
C6_SuccessOnlyAfterCommit ==
    /\ [](\A u \in Users :
            (Returned(u, "install") /\ result[u].success) =>
                /\ HasPlugin(u) /\ HasModule(u) /\ HasInstance(u)
                /\ result[u].plugin_id = PluginId(u)
                /\ "dist/remoteEntry.js" \in dirs[u].entries)
    /\ [][\A u \in Users :
            /\ (result'[u] # result[u] /\ result'[u].op = "install" /\ result'[u].success) =>
                  /\ pc[u] = "i_commit"
                  /\ db' = db \cup session[u].ins
                  /\ session[u].ins # {}
            /\ (pc[u] = "i_commit" /\ pc'[u] # pc[u] /\ ~result'[u].success) =>
                  /\ db' = db
                  /\ session'[u] = EmptySession]_vars

C6_Witness ==
    \E u \in Users :
        /\ Returned(u, "install") /\ result[u].success
        /\ {PluginRow(u), ModuleRow(u), InstanceRow(u)} \subseteq db
        /\ "dist/remoteEntry.js" \in dirs[u].entries

StagingErrors == {"source_not_found", "copy_failed"}

\* C7 as stated: after an install whose file staging failed, no row of the
\* user is committed or staged and the user's directory does not exist.
C7_StagingFailureLeavesNothing ==
    \A u \in Users :
        (Returned(u, "install") /\ result[u].error \in StagingErrors) =>
            /\ RowsOf(u) = {}
            /\ session[u] = EmptySession
            /\ ~dirs[u].exists

\* C7 amended: after an install whose file staging failed, no row of the user
\* is committed or staged, the deletion of the directory was attempted, and
\* the directory does not exist unless that deletion itself failed.
C7_StagingFailureCleansUp ==
    \A u \in Users :
        (Returned(u, "install") /\ result[u].error \in StagingErrors) =>
            /\ RowsOf(u) = {}
            /\ session[u] = EmptySession
            /\ loc[u].cleanup # "none"
            /\ loc[u].cleanup = "ok" => ~dirs[u].exists

C7_Witness ==
    \E u \in Users :
        /\ Returned(u, "install")
        /\ result[u].error = "source_not_found"
        /\ ~template.exists
        /\ loc[u].cleanup = "ok"
        /\ ~dirs[u].exists

ValidationErrors == {"dist_not_found", "remote_entry_not_found"}

\* C8 as stated: after an install whose validation failed, nothing is staged,
\* no row of the user is committed, the directory is removed and the result
\* is a failure.
C8_ValidationFailureLeavesNothing ==
    \A u \in Users :
        (Returned(u, "install") /\ result[u].error \in ValidationErrors) =>
            /\ ~result[u].success
            /\ session[u] = EmptySession
            /\ RowsOf(u) = {}
            /\ ~dirs[u].exists

\* C8 amended: after an install whose validation failed, nothing is staged, no
\* row of the user is committed, the result is a failure, the deletion of the
\* directory was attempted, and the directory does not exist unless that
\* deletion itself failed.
C8_ValidationFailureRollsBack ==
    \A u \in Users :
        (Returned(u, "install") /\ result[u].error \in ValidationErrors) =>
            /\ ~result[u].success
            /\ session[u] = EmptySession
            /\ RowsOf(u) = {}
            /\ loc[u].cleanup # "none"
            /\ loc[u].cleanup = "ok" => ~dirs[u].exists

C8_Witness ==
    \E u \in Users :
        /\ Returned(u, "install")
        /\ result[u].error = "dist_not_found"
        /\ template.exists /\ "dist" \notin template.entries
        /\ loc[u].cleanup = "ok"
        /\ ~dirs[u].exists
        /\ ~HasPlugin(u)

\* C9: the installs of two different users, whatever their interleaving, do
\* not fail on each other: when both have returned and neither met a failure
\* of its own environment, both succeeded, each user has a directory and a
\* Settings Instance, and the shared Settings Definition exists.
C9_ConcurrentInstallsSucceed ==
    \A u, v \in Users :
        (/\ u # v
         /\ Returned(u, "install") /\ Returned(v, "install")
         /\ result[u].error \in {"none", "integrity_error"}
         /\ result[v].error \in {"none", "integrity_error"}) =>
            /\ result[u].success /\ result[v].success
            /\ dirs[u].exists /\ dirs[v].exists
            /\ HasInstance(u) /\ HasInstance(v)
            /\ HasDefinition

\* C10: a successful install that follows a successful install and a
\* successful uninstall of the same user leaves the user's rows, the shared
\* definition and the user's directory as the first install left them.
C10_ReinstallEquivalent ==
    \A u \in Users :
        (Returned(u, "install") /\ result[u].success /\ fresh[u].stage = "reinstalled") =>
            /\ UserView(u) = [rows |-> fresh[u].rows, dir |-> fresh[u].dir]
            /\ result[u].plugin_id = PluginId(u)

C10_Witness ==
    \E u \in Users :
        /\ Returned(u, "install") /\ result[u].success
        /\ fresh[u].stage = "reinstalled"
        /\ UserView(u) = [rows |-> fresh[u].rows, dir |-> fresh[u].dir]
        /\ InstanceRow(u) \in fresh[u].rows

\* C11: the committed rows never hold more than one Settings Definition, and
\* no step of any install, uninstall or status request removes the
\* definition once it is committed.
C11_DefinitionKept ==
    /\ [](Cardinality({r \in db : r.kind = "SettingsDefinition"}) <= 1)
    /\ [][HasDefinition => HasDefinition']_vars

C11_Witness ==
    \E u \in Users :
        /\ Returned(u, "uninstall") /\ result[u].success
        /\ result[u].settings_removed = 1
        /\ RowsOf(u) = {}
        /\ HasDefinition

\* C12: a status request changes no committed row, no directory and not the
\* template, stages nothing in its session, and unless the query raised it
\* reports installed with the plugin identity exactly when the user's Plugin
\* record exists, and not installed with no identity otherwise.
C12_StatusPureRead ==
    [][\A u \in Users :
         /\ (pc[u] = "idle" /\ pc'[u] = "s_check") =>
               /\ db' = db /\ dirs' = dirs /\ template' = template
               /\ session'[u] = EmptySession
         /\ (pc[u] = "s_check" /\ pc'[u] # pc[u]) =>
               /\ db' = db /\ dirs' = dirs /\ template' = template
               /\ session' = session
               /\ result'[u].op = "status"
               /\ ~result'[u].raised =>
                     /\ result'[u].installed <=> HasPlugin(u)
                     /\ result'[u].plugin_id =
                            IF HasPlugin(u) THEN PluginId(u) ELSE NoId]_vars

C12_Witness ==
    \E u, v \in Users :
        /\ Returned(u, "status") /\ ~result[u].raised
        /\ result[u].installed /\ result[u].plugin_id = PluginId(u)
        /\ HasPlugin(u)
        /\ Returned(v, "status") /\ ~result[v].raised
        /\ ~result[v].installed /\ result[v].plugin_id = NoId
        /\ ~HasPlugin(v)

\* C13: install and uninstall always return a result to their endpoint: a
\* success, or a failure with an error, never an exception; the endpoint
\* answers 200 for the success and 400 for the failure, and an endpoint
\* answers 500 exactly when the call it made let an exception through.
C13_NoFaultPropagates ==
    \A u \in Users :
        /\ (Returned(u, "install") \/ Returned(u, "uninstall")) =>
              /\ ~result[u].raised
              /\ result[u].success <=> result[u].error = "none"
              /\ result[u].http = IF result[u].success THEN 200 ELSE 400
        /\ (pc[u] = "idle" /\ result[u].op # "none") =>
              (result[u].http = 500 <=> result[u].raised)

C13_Witness ==
    \E u, v \in Users :
        /\ Returned(u, "install") /\ ~result[u].success
        /\ result[u].error = "exception" /\ loc[u].settings_created # {}
        /\ result[u].http = 400
        /\ Returned(v, "status") /\ result[v].raised /\ result[v].http = 500

\* C16: no step of an uninstall before its return changes a committed row;
\* an uninstall that returns success leaves no Module, Plugin or Settings
\* Instance row of the user and no directory; an uninstall that returns a
\* failure has changed no committed row, so the rows of an installed user all
\* still exist, and has rolled its session back.
C16_UninstallAllOrNothing ==
    [][\A u \in Users :
         /\ (pc[u] \in UninstallPcs /\ pc'[u] # pc[u] /\ pc'[u] # "idle") => db' = db
         /\ (pc[u] \in UninstallPcs /\ pc'[u] = "idle" /\ result'[u].success) =>
               /\ ~HasModule(u)' /\ ~HasPlugin(u)' /\ ~HasInstance(u)'
               /\ ~dirs'[u].exists
         /\ (pc[u] \in UninstallPcs /\ pc'[u] = "idle" /\ ~result'[u].success) =>
               /\ db' = db
               /\ session'[u] = EmptySession]_vars

C16_Witness ==
    \E u, v \in Users :
        /\ Returned(u, "uninstall") /\ ~result[u].success
        /\ {PluginRow(u), ModuleRow(u), InstanceRow(u)} \subseteq db
        /\ session[u] = EmptySession
        /\ Returned(v, "uninstall") /\ result[v].success
        /\ result[v].modules_removed = 1
        /\ RowsOf(v) = {} /\ ~dirs[v].exists

\* C17: an install that has returned a failure has left no insert or delete
\* pending in its session.
C17_FailedInstallLeavesNothingStaged ==
    \A u \in Users :
        (Returned(u, "install") /\ ~result[u].success) => session[u] = EmptySession

\* C18: the directory that directory provisioning hands to file staging is
\* empty, and after a successful install the user's directory holds exactly
\* the entries of the template.
C18_ProvisionedDirectoryEmpty ==
    /\ [][\A u \in Users :
            (pc[u] = "i_mkdir" /\ pc'[u] = "i_copy") => dirs'[u] = Dir({})]_vars
    /\ [](\A u \in Users :
            (Returned(u, "install") /\ result[u].success) =>
                dirs[u] = Dir(template.entries))

\* C19: the settings_created of a successful install are the identities of
\* the settings rows its commit inserted.
C19_SettingsCreatedExact ==
    [][\A u \in Users :
         (pc[u] = "i_commit" /\ pc'[u] = "idle" /\ result'[u].success) =>
             result'[u].settings_created =
                 {r.id : r \in {x \in session[u].ins :
                                  x.kind \in {"SettingsDefinition", "SettingsInstance"}}}]_vars

\* C20: a step of a request of one user changes no committed row and no
\* pending change of another user, and not the other user's directory.
C20_ScopedToRequestingUser ==
    [][\A a, b \in Users :
         (a # b /\ pc'[a] # pc[a]) =>
             /\ {r \in db' : r.user_id = b} = {r \in db : r.user_id = b}
             /\ dirs'[b] = dirs[b]
             /\ session'[b] = session[b]]_vars

C20_Witness ==
    \E a, b \in Users :
        /\ a # b
        /\ Returned(a, "uninstall") /\ result[a].success
        /\ result[a].modules_removed = 1 /\ result[a].settings_removed = 1
        /\ pc[b] = "idle"
        /\ {PluginRow(b), ModuleRow(b), InstanceRow(b)} \subseteq db
        /\ "dist/remoteEntry.js" \in dirs[b].entries

\* ------------------------------------------------------------------ archive claims
\* The failures of a run: a required argument is missing, the current
\* directory has no entry of the plugin's name, that entry is not a directory,
\* or writing the archive raised.
MissingArguments(c) == ~c.list /\ (c.plugin_name = NoArg \/ c.version = NoArg)

MissingSource(c) == \A e \in c.tree : e.path # <<c.plugin_name>>

SourceNotDirectory(c) == File(<<c.plugin_name>>) \in c.tree

RunFailed(c) ==
    /\ ~c.list
    /\ MissingArguments(c) \/ MissingSource(c) \/ SourceNotDirectory(c) \/ c.io_error

\* A path is rejected when one of its components is node_modules or .git or
\* when its last name ends with package-lock.json.
Rejected(path) ==
    \/ \E i \in 1..Len(path) : path[i] \in {NodeModules, Git}
    \/ Len(path) > 0 /\ EndsWith(path[Len(path)], Lock)

\* C14: a run that failed has reported it and exits with code 1, and a run
\* exits with code 0 only when --list was asked for or the archive was
\* created.
C14_EveryFailureExitsOne ==
    cli.pc = "exit" =>
        /\ RunFailed(cli) => (cli.exit = 1 /\ cli.reported)
        /\ cli.exit = 0 => (cli.list \/ cli.archive # NoArg)
        /\ cli.exit \in {0, 1}

\* C15: the filter rejects the name of a member exactly when its path is
\* rejected, and the members of a created archive are exactly the source
\* directory and the entries below it whose paths are not rejected.
C15_MembersExact ==
    (cli.pc = "exit" /\ cli.archive # NoArg) =>
        LET paths == {<<cli.plugin_name>> \o e.path : e \in cli.tree \cup {Folder(<<>>)}}
        IN  /\ \A p \in paths : Excluded(Join(p)) <=> Rejected(p)
            /\ cli.members = {Join(p) : p \in {q \in paths : ~Rejected(q)}}

\* ------------------------------------------------------------------ counts
\* The rows of a kind that a step removed from the database.
RemovedModules(u) ==
    {r \in db \ db' : r.kind = "Module" /\ r.plugin_id = PluginId(u)}

RemovedInstances(u) ==
    {r \in db \ db' : r.kind = "SettingsInstance" /\ r.user_id = u}

\* The step on which uninstall_plugin returns its success result.
UninstallSucceeds(u) ==
    pc[u] = "u_commit" /\ pc'[u] = "idle" /\ result'[u].success

\* C21: a successful uninstall returns modules_removed equal to the number of
\* Module records of the owner's plugin that it deleted, none of which is
\* left, and settings_removed equal to the number of Settings Instances it
\* deleted, which is 1 when the owner had one and 0 otherwise; both are 1 for
\* an owner whose plugin was installed.
C21_RemovedCounts ==
    [][\A u \in Users :
          UninstallSucceeds(u) =>
              /\ result'[u].modules_removed = Cardinality(RemovedModules(u))
              /\ RemovedModules(u) =
                     {r \in db : r.kind = "Module" /\ r.plugin_id = PluginId(u)}
              /\ result'[u].settings_removed = Cardinality(RemovedInstances(u))
              /\ result'[u].settings_removed = IF HasInstance(u) THEN 1 ELSE 0
              /\ HasPlugin(u) => /\ result'[u].modules_removed = 1
                                 /\ result'[u].settings_removed = 1]_vars

\* An installed owner's uninstall has returned the counts 1 and 1 and the
\* records are gone.
C21_Witness ==
    /\ Returned("u1", "uninstall")
    /\ result["u1"].success
    /\ result["u1"].modules_removed = 1
    /\ result["u1"].settings_removed = 1
    /\ fresh["u1"].stage = "uninstalled"
    /\ ~HasModule("u1")
    /\ ~HasInstance("u1")

====
